---------------------------- MODULE Spec2Model ----------------------------
(***************************************************************************)
(* Game-session coordination and scoring engine of quizzy-play-along-fun.  *)
(*                                                                         *)
(* The model follows the Supabase revision of GameManager                  *)
(* (src/unnamed/part_000, lines 1-581).  One PIN is modelled.  The store   *)
(* of record is the game_sessions table; every browser tab (process) has   *)
(* its own GameManager with its own `games` map.  The state is the session *)
(* in the store, the sessions held by the GameManagers and the calls in    *)
(* flight; the events that a call hands to realtimeManager after its write *)
(* change none of these.  Every `await` on a store request is a suspension *)
(* point: an operation is a fetch step (getGameByPin and the synchronous   *)
(* code up to the update request) followed by one commit step per update   *)
(* request (the update at the store and the synchronous code after it).    *)
(* Steps of different processes interleave freely.                         *)
(*                                                                         *)
(* The store read of getGameByPin succeeds whenever the row exists; a      *)
(* store write may fail (the `error` of the update/insert response).       *)
(*                                                                         *)
(* SpecScoring runs the scoring code of submitAnswer on its own, on        *)
(* questions that no session of Spec has (points 0 or odd, timeLimit <= 0, *)
(* several answers marked correct).                                        *)
(*                                                                         *)
(* Spec leaves out the RealtimeManager and the useGameState hooks, which   *)
(* change nothing of the above.  Further specifications over the same      *)
(* variables follow them:                                                  *)
(*   SpecCollision   Spec, and createGameSession drawing a PIN in use;     *)
(*   SpecEvents      one tab: its GameManager, its RealtimeManager and the *)
(*                   timers between them;                                  *)
(*   SpecRealtime    the RealtimeManager on its own;                       *)
(*   SpecDelivery    the RealtimeManager with subscribers of two PINs      *)
(*                   whose callbacks return, unsubscribe or throw;         *)
(*   SpecHistory     the RealtimeManager with the histories of two PINs;   *)
(*   SpecLeaderboard getLeaderboard on its own;                            *)
(*   SpecFacade      the useGameState hooks of a host and a player tab     *)
(*                   (SpecFacadeFair: with the fairness of their refresh); *)
(*   SpecHook        one useGameState hook with its delayed and concurrent *)
(*                   refreshes, on a session that another tab drives;      *)
(*   SpecTimeSpent   one tab's GameManager, submitAnswer with any          *)
(*                   timeSpent.                                            *)
(***************************************************************************)
EXTENDS Integers, Sequences, FiniteSets, TLC

(***************************************************************************)
(* Bounds of the model.                                                    *)
(***************************************************************************)
\* Total number of GameManager calls that pass their checks and reach a store write.
MaxCalls == 6
\* Total number of calls that meet a failing store write (every attempt of
\* such a call may fail).
MaxFailures == 1
\* The number of game_sessions rows that hold the modelled PIN at once.
MaxRows == 2
\* Total number of subscribe calls on one RealtimeManager.
MaxSubs == 3
\* Total number of emit calls on a RealtimeManager that is run on its own.
MaxEmits == 52
\* Number of players of a session on which getLeaderboard is run on its own.
MaxPlayers == 3
\* Total number of GameManager calls that reach a store write where the
\* useGameState hooks are followed.
MaxFacadeCalls == 4
\* Total number of emit calls where the callbacks of the subscribers are followed.
MaxDeliveries == 2
\* Number of emit calls for another PIN where the histories of two PINs are followed.
MaxOtherEmits == 1
\* Number of scheduled refreshGameData timeouts of a hook that have not run yet.
MaxTimers == 3
\* Number of refreshGameData calls of a hook that are past their fetch at the same time.
MaxInFlight == 2

(***************************************************************************)
(* Program constants.                                                      *)
(***************************************************************************)
\* submitAnswer: const maxRetries = 3
maxRetries == 3
\* submitAnswer: currentQuestion.points || 1000
DefaultPoints == 1000
\* RealtimeManager.emit: if (history.length > 50) history.splice(0, history.length - 50)
MaxHistory == 50
\* RealtimeManager.subscribe: history.slice(-5)
ReplayCount == 5
\* The float NaN (0 / 0).  Every other award and score of the model is an
\* integer >= 0.
NaN == -1

(***************************************************************************)
(* Inputs.                                                                 *)
(***************************************************************************)
Procs == {"tab1", "tab2"}
Names == {"Alice", "alice", "Bob"}
AnswerIds == {"a1", "a2"}
TimeSpents == {10}
QuizIds == {"quizEmpty", "quiz3", "missing"}
\* The questionId argument of submitAnswer: the id of the second question of
\* quiz3 (a later, the current or an earlier question, as the cursor moves)
\* and an id that no question has.
QuestionIds == {"q2", "q9"}

\* String.prototype.toLowerCase on the names above.
ToLowerCase(s) ==
  CASE s = "Alice" -> "alice"
    [] s = "Bob" -> "bob"
    [] OTHER -> s

(***************************************************************************)
(* Quizzes (interface Quiz / Question / Answer).  getQuiz returns null for *)
(* an id that is in no quizzes row.                                        *)
(***************************************************************************)
Question1 ==
  [id |-> "q1", timeLimit |-> 20, points |-> 1000,
   answers |-> << [id |-> "a1", isCorrect |-> TRUE],
                  [id |-> "a2", isCorrect |-> FALSE] >>]

Question2 ==
  [id |-> "q2", timeLimit |-> 20, points |-> 500,
   answers |-> << [id |-> "a1", isCorrect |-> FALSE],
                  [id |-> "a2", isCorrect |-> TRUE] >>]

Question3 ==
  [id |-> "q3", timeLimit |-> 20, points |-> 1000,
   answers |-> << [id |-> "a1", isCorrect |-> TRUE],
                  [id |-> "a2", isCorrect |-> FALSE] >>]

\* QuizExists without the lookup: every id has a quiz.
QuizExists_Any(quizId) == TRUE

QuizExists(quizId) == quizId \in {"quizEmpty", "quiz3"}

\* quiz.questions of getQuiz(quizId)
getQuiz(quizId) ==
  CASE quizId = "quiz3" -> << Question1, Question2, Question3 >>
    [] OTHER -> << >>

VARIABLES
  rows,          \* game_sessions rows with this PIN (0 or 1 row)
  games,         \* games[p]: GameManager.games.get(pin) of process p (0 or 1 session)
  local,         \* local[p]: the call in flight in process p and its local variables
  ret,           \* what the call that completed last returned, and in which process
  nextId,        \* generateId(): the next fresh player id
  calls,         \* number of calls that reached a store write
  failures,      \* number of calls that met a failed store write
  scoring,       \* the answer being scored, when the scoring code is run on its own
  realtime,      \* realtime[p]: the RealtimeManager of process p
  board,         \* the getLeaderboard call, when getLeaderboard is run on its own
  view           \* view[p]: the useGameState hook (facade) of process p

vars == << rows, games, local, ret, nextId, calls, failures, scoring, realtime, board, view >>

\* What no GameManager call touches.
aside == << scoring, board, view >>

(***************************************************************************)
(* Records.                                                                *)
(***************************************************************************)
NoPlayer == [id |-> 0, name |-> "", score |-> 0, answers |-> << >>]

Idle ==
  [op |-> "idle", game |-> << >>, player |-> NoPlayer, playerId |-> 0,
   questionId |-> "", questionIdArg |-> "", answerId |-> "", points |-> 0, attempt |-> 0,
   newQuestionIndex |-> 0]

NoReturn ==
  [proc |-> "", op |-> "none", ok |-> FALSE, error |-> "", playerId |-> 0, questionId |-> ""]

\* What a call of process p returned (or threw), with the player and question it was about.
Return(p, op, ok, error, playerId, questionId) ==
  [proc |-> p, op |-> op, ok |-> ok, error |-> error,
   playerId |-> playerId, questionId |-> questionId]

\* No answer is being scored on its own.
NoScoring ==
  [phase |-> "none", question |-> Question1, answerId |-> "", timeSpent |-> 0,
   scoreBefore |-> 0, players |-> << >>, isCorrect |-> FALSE, points |-> 0]

\* No getLeaderboard call is being run on its own.
NoBoard == [phase |-> "none", cached |-> << >>, result |-> << >>]

\* A RealtimeManager after construction.  `on` tells whether the
\* specification follows the manager of this process (its history, its
\* subscriptions and the timers that will call it); where it is FALSE the
\* events are left out.  `history` and `subscriptions` are the entries of
\* the two maps for the modelled PIN, `otherHistory` and
\* `otherSubscriptions` their entries for another PIN.  `closures[sub]`:
\* the pin and the callback captured by subscribe call number sub;
\* `returned`: the subscribe calls that returned their unsubscribe function.
NewRealtime(on) ==
  [on |-> on, history |-> << >>, subscriptions |-> << >>, nextSub |-> 1,
   unsubscribed |-> {}, timers |-> << >>, clock |-> 0, delivered |-> << >>,
   closures |-> << >>, returned |-> {},
   otherHistory |-> << >>, otherSubscriptions |-> << >>]

\* A useGameState hook after its first render, for the playerId option it
\* was given (0: none, the host).  `subscribed`: the channel, the
\* realtimeManager subscription and the refresh interval of connect are in
\* place.  `pending`, `fetched`: the connect or refreshGameData call that is
\* past its getGameByPin, and the session that returned.  `timers`: the
\* setTimeout(() => refreshGameData(), ms) calls that have not run yet;
\* `inflight`: the sessions returned to refreshGameData calls that run at the
\* same time, each past its getGameByPin and before its setState.
NewView(playerId) ==
  [playerId |-> playerId, subscribed |-> FALSE, game |-> << >>, currentPlayer |-> << >>,
   pending |-> "none", fetched |-> << >>,
   isConnected |-> FALSE, timers |-> 0, inflight |-> << >>]

\* The row inserted by createGameSession.
NewSession(quizId) ==
  [quizId |-> quizId, status |-> "waiting", currentQuestionIndex |-> 0,
   players |-> << >>, startedAt |-> FALSE, finishedAt |-> FALSE]

(***************************************************************************)
(* Helpers.                                                                *)
(***************************************************************************)
\* NameTaken with the names compared as they are, without toLowerCase.
NameTaken_CaseSensitive(players, playerName) ==
  \E i \in 1..Len(players) : players[i].name = playerName

\* game.players.some(p => p.name.toLowerCase() === playerName.toLowerCase())
NameTaken(players, playerName) ==
  \E i \in 1..Len(players) : ToLowerCase(players[i].name) = ToLowerCase(playerName)

\* FindPlayer falling back to the first player when none has the id:
\* game.players.find(p => p.id === playerId) || game.players[0]
FindPlayer_OrFirst(players, playerId) ==
  IF \E i \in 1..Len(players) : players[i].id = playerId
    THEN CHOOSE i \in 1..Len(players) :
           /\ players[i].id = playerId
           /\ \A j \in 1..(i - 1) : players[j].id # playerId
    ELSE IF Len(players) > 0 THEN 1 ELSE 0

\* index of game.players.find(p => p.id === playerId), 0 when there is none
FindPlayer(players, playerId) ==
  IF \E i \in 1..Len(players) : players[i].id = playerId
    THEN CHOOSE i \in 1..Len(players) :
           /\ players[i].id = playerId
           /\ \A j \in 1..(i - 1) : players[j].id # playerId
    ELSE 0

\* quiz.questions[game.currentQuestionIndex] is defined
HasCurrentQuestion(game) ==
  /\ game.currentQuestionIndex >= 0
  /\ game.currentQuestionIndex < Len(getQuiz(game.quizId))

CurrentQuestion(game) == getQuiz(game.quizId)[game.currentQuestionIndex + 1]

\* ScoredQuestion as quiz.questions.find(q => q.id === questionId), the
\* question the caller names (the current one when it names none of the quiz).
ScoredQuestion_ByCallerId(game, questionId) ==
  LET questions == getQuiz(game.quizId)
  IN IF \E i \in 1..Len(questions) : questions[i].id = questionId
       THEN questions[CHOOSE i \in 1..Len(questions) : questions[i].id = questionId]
       ELSE CurrentQuestion(game)

\* The question submitAnswer checks and scores against: the questionId
\* argument is not used, currentQuestion = quiz.questions[game.currentQuestionIndex]
ScoredQuestion(game, questionId) == CurrentQuestion(game)

\* AlreadyAnswered with the check left out.
AlreadyAnswered_Never(player, question) == FALSE

\* AlreadyAnswered with the record's answerId compared in place of its questionId.
AlreadyAnswered_ByAnswerId(player, question) ==
  \E i \in 1..Len(player.answers) : player.answers[i].answerId = question.id

\* player.answers.some(a => a.questionId === currentQuestion.id)
AlreadyAnswered(player, question) ==
  \E i \in 1..Len(player.answers) : player.answers[i].questionId = question.id

\* IsCorrect as "some answer of the question is marked correct", whatever the answerId.
IsCorrect_AnyMarked(question, answerId) ==
  \E i \in 1..Len(question.answers) : question.answers[i].isCorrect

\* (answer?.isCorrect || false) for answer = currentQuestion.answers.find(a => a.id === answerId)
IsCorrect(question, answerId) ==
  \E i \in 1..Len(question.answers) :
    /\ question.answers[i].id = answerId
    /\ \A j \in 1..(i - 1) : question.answers[j].id # answerId
    /\ question.answers[i].isCorrect

\* The points of submitAnswer, for timeSpent >= 0:
\*   basePoints = points || 1000
\*   timeRatio  = max(0, (timeLimit - timeSpent) / timeLimit)
\*   timeBonus  = floor(basePoints * 0.5 * timeRatio)
\*   points     = floor(basePoints * 0.5) + timeBonus
\* timeLimit = 0: 0 / 0 is NaN and max, floor and + keep it; (-timeSpent) / 0
\* is -Infinity, so timeRatio is 0.  timeLimit < 0: the quotient of two
\* negative numbers, (timeSpent - timeLimit) / (-timeLimit), is >= 1.
computePoints(question, isCorrect, timeSpent) ==
  IF ~isCorrect THEN 0
  ELSE LET basePoints == IF question.points = 0 THEN DefaultPoints ELSE question.points
           timeLimit == question.timeLimit
       IN IF timeLimit = 0
            THEN IF timeSpent = 0 THEN NaN ELSE basePoints \div 2
            ELSE LET n == IF timeLimit > 0 THEN timeLimit - timeSpent ELSE timeSpent - timeLimit
                     d == IF timeLimit > 0 THEN timeLimit ELSE 0 - timeLimit
                     num == IF n > 0 THEN n ELSE 0
                     timeBonus == (basePoints * num) \div (2 * d)
                 IN (basePoints \div 2) + timeBonus

\* a + b on floats: NaN when either is NaN
Plus(a, b) == IF a = NaN \/ b = NaN THEN NaN ELSE a + b

\* quiz.questions.find(q => q.id === questionId) for an id the quiz has
QuestionById(quizId, questionId) ==
  LET questions == getQuiz(quizId)
  IN questions[CHOOSE i \in 1..Len(questions) : questions[i].id = questionId]

\* The sum, over the AnswerRecords, of the points of submitAnswer for the
\* record's question, isCorrect and timeSpent.
RECURSIVE RecordedPoints(_, _)
RecordedPoints(quizId, answers) ==
  IF answers = << >> THEN 0
  ELSE Plus(computePoints(QuestionById(quizId, Head(answers).questionId),
                          Head(answers).isCorrect, Head(answers).timeSpent),
            RecordedPoints(quizId, Tail(answers)))

(***************************************************************************)
(* RealtimeManager (src/src/lib/realtimeManager.ts), for the modelled PIN. *)
(* An event is its type and its timestamp; `delivered` holds the callback  *)
(* invocations of the last call that invoked callbacks, in order.          *)
(***************************************************************************)
\* The type of RealtimeEvent.type.
EventTypes ==
  {"player_joined", "player_left", "game_started", "question_started",
   "answer_submitted", "game_ended"}

\* The PIN of the modelled session, and another PIN.
Pin == "pin"
OtherPin == "other"
Pins == {Pin, OtherPin}

\* What a callback does when it is called: return, call the unsubscribe
\* function its subscribe call returned (when it has it) and return, or throw.
CallbackKinds == {"plain", "once", "throws"}

\* LastOf keeping the oldest n entries: history.slice(0, n)
LastOf_Oldest(history, n) ==
  IF Len(history) > n THEN SubSeq(history, 1, n) ELSE history

\* history.slice(-n)
LastOf(history, n) ==
  IF Len(history) > n THEN SubSeq(history, Len(history) - n + 1, Len(history)) ELSE history

\* The elements of a sequence.
Range(seq) == {seq[i] : i \in 1..Len(seq)}

\* The splice of the unsubscribe function without the test index > -1:
\* splice(-1, 1) removes the last element.
Unsubscribed_NoIndexCheck(subs, sub) ==
  IF sub \in Range(subs)
    THEN LET index == CHOOSE i \in 1..Len(subs) : subs[i] = sub
         IN SubSeq(subs, 1, index - 1) \o SubSeq(subs, index + 1, Len(subs))
    ELSE SubSeq(subs, 1, Len(subs) - 1)

\* subs after index = subs.indexOf(subscription); if (index > -1) subs.splice(index, 1)
Unsubscribed(subs, sub) ==
  IF sub \in Range(subs)
    THEN LET index == CHOOSE i \in 1..Len(subs) : subs[i] = sub
         IN SubSeq(subs, 1, index - 1) \o SubSeq(subs, index + 1, Len(subs))
    ELSE subs

\* subscribers.forEach(sub => { try { sub.callback(event) } catch { ... } })
\* from index k on: Array.prototype.forEach reads the length once (len) and
\* visits the indices below it that the array still has when their turn
\* comes, while a callback of kind "once" splices its subscription out of the
\* same array.  Yields the array and the calls made, in order.
RECURSIVE forEach(_, _, _, _, _, _)
forEach(subs, closures, k, len, event, delivered) ==
  IF k > len THEN [subscriptions |-> subs, delivered |-> delivered]
  ELSE IF k > Len(subs) THEN forEach(subs, closures, k + 1, len, event, delivered)
  ELSE LET sub == subs[k]
       IN forEach(IF closures[sub].kind = "once" THEN Unsubscribed(subs, sub) ELSE subs,
                  closures, k + 1, len, event,
                  Append(delivered, [sub |-> sub, event |-> event]))

\* emit(pin, type, payload): push to the history of the PIN, keep the last
\* 50, call the subscribers of the PIN with forEach.
emitTo(rt, pin, type) ==
  IF ~rt.on THEN rt
  ELSE LET event == [type |-> type, timestamp |-> rt.clock + 1, gamePin |-> pin]
           subscribers == IF pin = Pin THEN rt.subscriptions ELSE rt.otherSubscriptions
           done == forEach(subscribers, rt.closures, 1, Len(subscribers), event, << >>)
           called == {done.delivered[i].sub : i \in 1..Len(done.delivered)}
           after == [rt EXCEPT !.clock = @ + 1,
                               !.delivered = done.delivered,
                               !.unsubscribed =
                                 @ \cup {sub \in called : rt.closures[sub].kind = "once"}]
       IN IF pin = Pin
            THEN [after EXCEPT !.history = LastOf(Append(@, event), MaxHistory),
                               !.subscriptions = done.subscriptions]
            ELSE [after EXCEPT !.otherHistory = LastOf(Append(@, event), MaxHistory),
                               !.otherSubscriptions = done.subscriptions]

\* emit(pin, type, payload) for the PIN of the modelled session
emit(rt, type) == emitTo(rt, Pin, type)

\* setTimeout(() => realtimeManager.emit(pin, type, ...), ms) for each type, in the order of their delays
setTimeouts(rt, types) ==
  IF ~rt.on THEN rt ELSE [rt EXCEPT !.timers = @ \o types]

(***************************************************************************)
(* Initial state: no session for the PIN, every GameManager freshly        *)
(* constructed.                                                            *)
(***************************************************************************)
Init ==
  /\ rows = << >>
  /\ games = [p \in Procs |-> << >>]
  /\ local = [p \in Procs |-> Idle]
  /\ ret = NoReturn
  /\ nextId = 1
  /\ calls = 0
  /\ failures = 0
  /\ scoring = NoScoring
  /\ realtime = [p \in Procs |-> NewRealtime(FALSE)]
  /\ board = NoBoard
  /\ view = [p \in Procs |-> NewView(0)]

\* A call may start in process p.
CanCall(p) == local[p].op = "idle" /\ calls < MaxCalls

\* getGameByPin: .single() yields the row when exactly one row has the PIN.
Found == Len(rows) = 1

\* The call of process p returns r without having written anything.
Reject(p, r) ==
  /\ ret' = r
  /\ local' = [local EXCEPT ![p] = Idle]
  /\ UNCHANGED << rows, nextId, calls, failures >>

\* The response of a store write: failed (error set) or not.
WriteOutcomes == IF failures < MaxFailures THEN {TRUE, FALSE} ELSE {FALSE}

\* The response of the update of attempt `attempt` of the retry loop: a later
\* attempt follows a failed one of the same call.
RetryOutcomes(attempt) == IF attempt > 1 THEN {TRUE, FALSE} ELSE WriteOutcomes

(***************************************************************************)
(* createGameSession(quizId).  generatePin draws a PIN that no row has:    *)
(* the call is about this PIN only while the PIN is unused.                *)
(***************************************************************************)
createGameSession(p, quizId) ==
  /\ CanCall(p)
  /\ UNCHANGED aside
  /\ IF ~QuizExists(quizId)
       THEN /\ Reject(p, Return(p, "createGameSession", FALSE, "Quiz not found", 0, ""))
            /\ UNCHANGED games
       ELSE /\ Len(rows) = 0
            /\ \E error \in WriteOutcomes :
                 IF error
                   THEN /\ failures' = failures + 1
                        /\ ret' = Return(p, "createGameSession", FALSE, "Failed to create game session", 0, "")
                        /\ UNCHANGED << rows, games >>
                   ELSE /\ rows' = << NewSession(quizId) >>
                        /\ games' = [games EXCEPT ![p] = << NewSession(quizId) >>]
                        /\ ret' = Return(p, "createGameSession", TRUE, "", 0, "")
                        /\ UNCHANGED failures
            /\ calls' = calls + 1
            /\ UNCHANGED << local, nextId >>
  \* realtimeManager.emit(gameSession.pin, 'game_created', ...) once the insert succeeded
  /\ realtime' = [realtime EXCEPT ![p] = IF ret'.ok THEN emit(@, "game_created") ELSE @]

\* createGameSession(quizId) when generatePin returns the PIN of a session
\* that exists: the code does not look for the PIN before the insert, and
\* this.games.set puts the new session in the place of the one held.
createGameSessionCollision(p, quizId) ==
  /\ CanCall(p)
  /\ UNCHANGED aside
  /\ QuizExists(quizId)
  /\ Len(rows) >= 1 /\ Len(rows) < MaxRows
  /\ \E error \in WriteOutcomes :
       IF error
         THEN /\ failures' = failures + 1
              /\ ret' = Return(p, "createGameSession", FALSE, "Failed to create game session", 0, "")
              /\ UNCHANGED << rows, games >>
         ELSE /\ rows' = Append(rows, NewSession(quizId))
              /\ games' = [games EXCEPT ![p] = << NewSession(quizId) >>]
              /\ ret' = Return(p, "createGameSession", TRUE, "", 0, "")
              /\ UNCHANGED failures
  /\ calls' = calls + 1
  /\ UNCHANGED << local, nextId >>
  \* realtimeManager.emit(gameSession.pin, 'game_created', ...) once the insert succeeded
  /\ realtime' = [realtime EXCEPT ![p] = IF ret'.ok THEN emit(@, "game_created") ELSE @]

(***************************************************************************)
(* addPlayerToGame(pin, playerName)                                        *)
(***************************************************************************)
addPlayerToGame(p, playerName) ==
  /\ CanCall(p)
  /\ UNCHANGED << aside, realtime >>
  /\ IF ~Found
       THEN /\ Reject(p, Return(p, "addPlayerToGame", FALSE, "Game not found", 0, ""))
            /\ UNCHANGED games
       ELSE LET game == rows[1] IN
            /\ games' = [games EXCEPT ![p] = << game >>]
            /\ IF game.status # "waiting"
                 THEN Reject(p, Return(p, "addPlayerToGame", FALSE, "Game already started", 0, ""))
                 ELSE IF NameTaken(game.players, playerName)
                 THEN Reject(p, Return(p, "addPlayerToGame", FALSE, "Name already taken", 0, ""))
                 ELSE /\ local' = [local EXCEPT ![p] =
                           [Idle EXCEPT !.op = "addPlayerToGame", !.game = << game >>,
                                        !.player = [id |-> nextId, name |-> playerName,
                                                    score |-> 0, answers |-> << >>]]]
                      /\ nextId' = nextId + 1
                      /\ calls' = calls + 1
                      /\ UNCHANGED << rows, ret, failures >>

\* .update({ players: updatedPlayers }) and the code after it
addPlayerCommit(p) ==
  /\ local[p].op = "addPlayerToGame"
  /\ UNCHANGED aside
  /\ LET game == local[p].game[1]
         player == local[p].player
         updatedPlayers == Append(game.players, player)
     IN \E error \in WriteOutcomes :
          IF error
            THEN /\ failures' = failures + 1
                 /\ ret' = Return(p, "addPlayerToGame", FALSE, "Failed to join game", 0, "")
                 /\ UNCHANGED << rows, games >>
            ELSE /\ rows' = [i \in 1..Len(rows) |-> [rows[i] EXCEPT !.players = updatedPlayers]]
                 /\ games' = [games EXCEPT ![p] = << [game EXCEPT !.players = updatedPlayers] >>]
                 /\ ret' = Return(p, "addPlayerToGame", TRUE, "", player.id, "")
                 /\ UNCHANGED failures
  /\ local' = [local EXCEPT ![p] = Idle]
  /\ UNCHANGED << nextId, calls >>
  \* realtimeManager.playerJoined(pin, ...)
  /\ realtime' = [realtime EXCEPT ![p] = IF ret'.ok THEN emit(@, "player_joined") ELSE @]

(***************************************************************************)
(* startGame(pin)                                                          *)
(***************************************************************************)
\* CanStart without the check for an empty roster.
CanStart_AnyRoster(game) == game.status = "waiting"

\* The guard of startGame on the fetched game: status waiting, players non-empty.
CanStart(game) == game.status = "waiting" /\ Len(game.players) # 0

startGame(p) ==
  /\ CanCall(p)
  /\ UNCHANGED << aside, realtime >>
  /\ IF ~Found
       THEN /\ Reject(p, Return(p, "startGame", FALSE, "invalid state", 0, ""))
            /\ UNCHANGED games
       ELSE LET game == rows[1] IN
            /\ games' = [games EXCEPT ![p] = << game >>]
            /\ IF game.status # "waiting"
                 THEN Reject(p, Return(p, "startGame", FALSE, "invalid state", 0, ""))
                 ELSE IF ~CanStart(game)
                 THEN Reject(p, Return(p, "startGame", FALSE, "no players", 0, ""))
                 ELSE /\ local' = [local EXCEPT ![p] =
                           [Idle EXCEPT !.op = "startGame", !.game = << game >>]]
                      /\ calls' = calls + 1 /\ UNCHANGED << rows, ret, nextId, failures >>

\* StartUpdate writing nothing: the update request reports no error and the row is as it was.
StartUpdate_NotWritten(row) == row

\* The columns written by startGame.
StartUpdate(row) == [row EXCEPT !.status = "playing", !.startedAt = TRUE]

\* .update({ status: 'playing', started_at }) and the code after it
startGameCommit(p) ==
  /\ local[p].op = "startGame"
  /\ UNCHANGED aside
  /\ LET game == local[p].game[1]
     IN \E error \in WriteOutcomes :
          IF error
            THEN /\ failures' = failures + 1
                 /\ ret' = Return(p, "startGame", FALSE, "Error starting game", 0, "")
                 /\ UNCHANGED << rows, games >>
            ELSE /\ rows' = [i \in 1..Len(rows) |-> StartUpdate(rows[i])]
                 /\ games' = [games EXCEPT ![p] = << StartUpdate(game) >>]
                 /\ ret' = Return(p, "startGame", TRUE, "", 0, "")
                 /\ UNCHANGED failures
  /\ local' = [local EXCEPT ![p] = Idle]
  /\ UNCHANGED << nextId, calls >>
  \* realtimeManager.gameStarted(pin); three setTimeout(() => questionStarted(pin, 0, ...))
  \* when the quiz has a first question
  /\ realtime' = [realtime EXCEPT ![p] =
       IF ret'.ok
         THEN setTimeouts(emit(@, "game_started"),
                          IF Len(getQuiz(local[p].game[1].quizId)) > 0
                            THEN << "question_started", "question_started", "question_started" >>
                            ELSE << >>)
         ELSE @]

(***************************************************************************)
(* submitAnswer(pin, playerId, questionId, answerId, timeSpent).  The      *)
(* questionId argument is only logged; the call keeps it while in flight.  *)
(***************************************************************************)
\* RecordAnswer with the record pushed and the score left as it was.
RecordAnswer_NoScore(players, i, question, answerId, timeSpent, isCorrect, points) ==
  [players EXCEPT ![i] =
     [@ EXCEPT !.answers = Append(@, [questionId |-> question.id, answerId |-> answerId,
                                       timeSpent |-> timeSpent, isCorrect |-> isCorrect])]]

\* player.answers.push({...}); player.score += points   (on players[i])
RecordAnswer(players, i, question, answerId, timeSpent, isCorrect, points) ==
  [players EXCEPT ![i] =
     [@ EXCEPT !.answers = Append(@, [questionId |-> question.id, answerId |-> answerId,
                                       timeSpent |-> timeSpent, isCorrect |-> isCorrect]),
               !.score = Plus(@, points)]]

submitAnswer(p, playerId, questionId, answerId, timeSpent) ==
  /\ CanCall(p)
  /\ UNCHANGED << aside, realtime >>
  /\ IF ~Found
       THEN /\ Reject(p, Return(p, "submitAnswer", FALSE, "Invalid game or quiz state", playerId, ""))
            /\ UNCHANGED games
       ELSE LET game == rows[1]
                i == FindPlayer(game.players, playerId)
            IN IF game.status # "playing"
                 THEN /\ games' = [games EXCEPT ![p] = << game >>]
                      /\ Reject(p, Return(p, "submitAnswer", FALSE, "Invalid game or quiz state", playerId, ""))
                 ELSE IF i = 0 \/ ~HasCurrentQuestion(game)
                 THEN /\ games' = [games EXCEPT ![p] = << game >>]
                      /\ Reject(p, Return(p, "submitAnswer", FALSE, "Player or current question not found", playerId, ""))
                 ELSE LET currentQuestion == ScoredQuestion(game, questionId)
                          isCorrect == IsCorrect(currentQuestion, answerId)
                          points == computePoints(currentQuestion, isCorrect, timeSpent)
                          mutated == [game EXCEPT !.players =
                                        RecordAnswer(@, i, currentQuestion, answerId,
                                                     timeSpent, isCorrect, points)]
                      IN IF AlreadyAnswered(game.players[i], currentQuestion)
                           THEN /\ games' = [games EXCEPT ![p] = << game >>]
                                /\ Reject(p, Return(p, "submitAnswer", FALSE,
                                                    "Player already answered this question",
                                                    playerId, currentQuestion.id))
                           \* `game` is the object getGameByPin stored in this.games:
                           \* the push and the score update are visible there at once
                           ELSE /\ games' = [games EXCEPT ![p] = << mutated >>]
                                /\ local' = [local EXCEPT ![p] =
                                     [Idle EXCEPT !.op = "submitAnswer", !.game = << mutated >>,
                                                  !.playerId = playerId, !.answerId = answerId,
                                                  !.questionId = currentQuestion.id,
                                                  !.questionIdArg = questionId,
                                                  !.points = points, !.attempt = 1]]
                                /\ calls' = calls + 1 /\ UNCHANGED << rows, ret, nextId, failures >>

\* One attempt of the retry loop: .update({ players: game.players })
submitAnswerCommit(p) ==
  /\ local[p].op = "submitAnswer"
  /\ UNCHANGED aside
  /\ LET game == local[p].game[1]
     IN \E error \in RetryOutcomes(local[p].attempt) :
          IF error
            THEN /\ failures' = IF local[p].attempt = 1 THEN failures + 1 ELSE failures
                 /\ IF local[p].attempt = maxRetries
                      THEN /\ ret' = Return(p, "submitAnswer", FALSE, "Error submitting answer",
                                       local[p].playerId, local[p].questionId)
                           /\ local' = [local EXCEPT ![p] = Idle]
                      ELSE /\ local' = [local EXCEPT ![p].attempt = @ + 1]
                           /\ UNCHANGED ret
                 /\ UNCHANGED << rows, games >>
            ELSE /\ rows' = [i \in 1..Len(rows) |-> [rows[i] EXCEPT !.players = game.players]]
                 /\ games' = [games EXCEPT ![p] = << game >>]
                 /\ ret' = Return(p, "submitAnswer", TRUE, "", local[p].playerId, local[p].questionId)
                 /\ local' = [local EXCEPT ![p] = Idle]
                 /\ UNCHANGED failures
  /\ UNCHANGED << nextId, calls >>
  \* realtimeManager.answerSubmitted(pin, playerId, answerId)
  /\ realtime' = [realtime EXCEPT ![p] =
       IF local'[p].op = "idle" /\ ret'.ok THEN emit(@, "answer_submitted") ELSE @]

(***************************************************************************)
(* nextQuestion(pin)                                                       *)
(***************************************************************************)
\* The guard of nextQuestion on the fetched game: the game and its quiz exist.
CanAdvance(game) == QuizExists(game.quizId)

nextQuestion(p) ==
  /\ CanCall(p)
  /\ UNCHANGED << aside, realtime >>
  /\ IF ~Found
       THEN /\ Reject(p, Return(p, "nextQuestion", FALSE, "Game or quiz not found", 0, ""))
            /\ UNCHANGED games
       ELSE LET game == rows[1] IN
            /\ games' = [games EXCEPT ![p] = << game >>]
            /\ IF ~CanAdvance(game)
                 THEN Reject(p, Return(p, "nextQuestion", FALSE, "Game or quiz not found", 0, ""))
                 ELSE /\ local' = [local EXCEPT ![p] =
                           [Idle EXCEPT !.op = "nextQuestion", !.game = << game >>,
                                        !.newQuestionIndex = game.currentQuestionIndex + 1]]
                      /\ calls' = calls + 1 /\ UNCHANGED << rows, ret, nextId, failures >>

\* updateData of nextQuestion applied to a session
AdvanceUpdate(row, newQuestionIndex, length) ==
  IF newQuestionIndex >= length
    THEN [row EXCEPT !.currentQuestionIndex = newQuestionIndex,
                     !.status = "finished", !.finishedAt = TRUE]
    ELSE [row EXCEPT !.currentQuestionIndex = newQuestionIndex]

\* .update(updateData) and the code after it
nextQuestionCommit(p) ==
  /\ local[p].op = "nextQuestion"
  /\ UNCHANGED aside
  /\ LET game == local[p].game[1]
         newQuestionIndex == local[p].newQuestionIndex
         length == Len(getQuiz(game.quizId))
     IN \E error \in WriteOutcomes :
          IF error
            THEN /\ failures' = failures + 1
                 /\ ret' = Return(p, "nextQuestion", FALSE, "Error updating question", 0, "")
                 /\ UNCHANGED << rows, games >>
            ELSE /\ rows' = [i \in 1..Len(rows) |-> AdvanceUpdate(rows[i], newQuestionIndex, length)]
                 /\ games' = [games EXCEPT ![p] = << AdvanceUpdate(game, newQuestionIndex, length) >>]
                 /\ ret' = Return(p, "nextQuestion", TRUE, "", 0, "")
                 /\ UNCHANGED failures
  /\ local' = [local EXCEPT ![p] = Idle]
  /\ UNCHANGED << nextId, calls >>
  \* realtimeManager.gameEnded(pin, finalScores) or questionStarted(pin, newQuestionIndex, ...)
  /\ realtime' = [realtime EXCEPT ![p] =
       IF ~ret'.ok THEN @
       ELSE IF local[p].newQuestionIndex >= Len(getQuiz(local[p].game[1].quizId))
         THEN emit(@, "game_ended")
         ELSE emit(@, "question_started")]

(***************************************************************************)
(* Specifications.                                                         *)
(***************************************************************************)
\* The player ids a caller may pass: every id generated so far, and an unknown one.
PlayerIds == 0..(nextId - 1)

CreateGameSession == \E p \in Procs, quizId \in QuizIds : createGameSession(p, quizId)
AddPlayerToGame == \E p \in Procs, playerName \in Names : addPlayerToGame(p, playerName)
AddPlayerCommit == \E p \in Procs : addPlayerCommit(p)
StartGame == \E p \in Procs : startGame(p)
StartGameCommit == \E p \in Procs : startGameCommit(p)
SubmitAnswer ==
  \E p \in Procs, playerId \in PlayerIds, questionId \in QuestionIds,
     answerId \in AnswerIds, timeSpent \in TimeSpents :
    submitAnswer(p, playerId, questionId, answerId, timeSpent)
SubmitAnswerCommit == \E p \in Procs : submitAnswerCommit(p)
NextQuestion == \E p \in Procs : nextQuestion(p)
NextQuestionCommit == \E p \in Procs : nextQuestionCommit(p)

Next ==
  \/ CreateGameSession
  \/ AddPlayerToGame
  \/ AddPlayerCommit
  \/ StartGame
  \/ StartGameCommit
  \/ SubmitAnswer
  \/ SubmitAnswerCommit
  \/ NextQuestion
  \/ NextQuestionCommit

\* Calls of all processes interleave at their suspension points.
Spec == Init /\ [][Next]_vars

(***************************************************************************)
(* The calls of Spec, and createGameSession drawing a PIN that is in use.  *)
(***************************************************************************)
CreateGameSessionCollision ==
  \E p \in Procs, quizId \in QuizIds : createGameSessionCollision(p, quizId)

NextCollision ==
  \/ Next
  \/ CreateGameSessionCollision

SpecCollision == Init /\ [][NextCollision]_vars

(***************************************************************************)
(* One browser tab with its RealtimeManager.  A subscription is known by   *)
(* the number of its subscribe call.                                       *)
(*                                                                         *)
(* SpecEvents: the tab's GameManager makes the calls of Spec, the timers   *)
(* they set run, and one consumer subscribes.                              *)
(*                                                                         *)
(* SpecRealtime: the RealtimeManager on its own, with emit, subscribe, the *)
(* returned unsubscribe functions and cleanup called in any order; the     *)
(* events differ by their timestamps.                                      *)
(***************************************************************************)
Tab == "tab1"

\* subscribe(pin, callback): push the subscription, call the callback with
\* history.slice(-5), return the unsubscribe function.  The replay has no
\* try/catch: a callback that throws on the first replayed event ends the
\* call, with the subscription pushed and no unsubscribe function returned.
subscribeTo(p, pin, kind) ==
  /\ realtime[p].on
  /\ realtime[p].nextSub <= MaxSubs
  /\ LET rt == realtime[p]
         history == IF pin = Pin THEN rt.history ELSE rt.otherHistory
         recent == LastOf(history, ReplayCount)
         thrown == kind = "throws" /\ recent # << >>
         called == IF thrown THEN SubSeq(recent, 1, 1) ELSE recent
         pushed == [rt EXCEPT !.nextSub = @ + 1,
                              !.closures = Append(@, [pin |-> pin, kind |-> kind]),
                              !.returned = IF thrown THEN @ ELSE @ \cup {rt.nextSub},
                              !.delivered = [i \in 1..Len(called) |->
                                               [sub |-> rt.nextSub, event |-> called[i]]]]
     IN realtime' = [realtime EXCEPT ![p] =
          IF pin = Pin
            THEN [pushed EXCEPT !.subscriptions = Append(@, rt.nextSub)]
            ELSE [pushed EXCEPT !.otherSubscriptions = Append(@, rt.nextSub)]]
  /\ UNCHANGED << rows, games, local, ret, nextId, calls, failures, aside >>

\* subscribe(pin, callback) for the modelled PIN, with a callback that returns
subscribe(p) == subscribeTo(p, Pin, "plain")

\* A call of the function that the subscribe call number sub returned.
unsubscribe(p, sub) ==
  /\ realtime[p].on
  /\ sub \in realtime[p].returned
  /\ realtime' = [realtime EXCEPT ![p] =
       IF realtime[p].closures[sub].pin = Pin
         THEN [@ EXCEPT !.subscriptions = Unsubscribed(@, sub),
                        !.unsubscribed = @ \cup {sub}]
         ELSE [@ EXCEPT !.otherSubscriptions = Unsubscribed(@, sub),
                        !.unsubscribed = @ \cup {sub}]]
  /\ UNCHANGED << rows, games, local, ret, nextId, calls, failures, aside >>

\* cleanup(pin): subscriptions.delete(pin); eventHistory.delete(pin)
cleanup(p) ==
  /\ realtime[p].on
  /\ realtime' = [realtime EXCEPT ![p] =
       [@ EXCEPT !.subscriptions = << >>, !.history = << >>]]
  /\ UNCHANGED << rows, games, local, ret, nextId, calls, failures, aside >>

\* The earliest pending timer runs its realtimeManager call.
timerFires(p) ==
  /\ realtime[p].on
  /\ realtime[p].timers # << >>
  /\ realtime' = [realtime EXCEPT ![p] =
       emit([@ EXCEPT !.timers = Tail(@)], Head(realtime[p].timers))]
  /\ UNCHANGED << rows, games, local, ret, nextId, calls, failures, aside >>

\* realtimeManager.answerSubmitted(pin, ...) called on the manager run on its own
emitCalled(p, type) ==
  /\ realtime[p].on
  /\ realtime[p].clock < MaxEmits
  /\ realtime' = [realtime EXCEPT ![p] = emit(@, type)]
  /\ UNCHANGED << rows, games, local, ret, nextId, calls, failures, aside >>

\* realtimeManager.answerSubmitted(pin, ...) for either PIN
emitCalledTo(p, pin, type) ==
  /\ realtime[p].on
  /\ realtime' = [realtime EXCEPT ![p] = emitTo(@, pin, type)]
  /\ UNCHANGED << rows, games, local, ret, nextId, calls, failures, aside >>

InitRealtime ==
  /\ rows = << >>
  /\ games = [p \in Procs |-> << >>]
  /\ local = [p \in Procs |-> Idle]
  /\ ret = NoReturn
  /\ nextId = 1
  /\ calls = 0
  /\ failures = 0
  /\ scoring = NoScoring
  /\ realtime = [p \in Procs |-> NewRealtime(p = Tab)]
  /\ board = NoBoard
  /\ view = [p \in Procs |-> NewView(0)]

NextEvents ==
  \/ \E quizId \in QuizIds : createGameSession(Tab, quizId)
  \/ \E playerName \in Names : addPlayerToGame(Tab, playerName)
  \/ addPlayerCommit(Tab)
  \/ startGame(Tab)
  \/ startGameCommit(Tab)
  \/ \E playerId \in PlayerIds, questionId \in QuestionIds,
        answerId \in AnswerIds, timeSpent \in TimeSpents :
       submitAnswer(Tab, playerId, questionId, answerId, timeSpent)
  \/ submitAnswerCommit(Tab)
  \/ nextQuestion(Tab)
  \/ nextQuestionCommit(Tab)
  \/ timerFires(Tab)
  \/ (realtime[Tab].nextSub = 1 /\ subscribe(Tab))

SpecEvents == InitRealtime /\ [][NextEvents]_vars

NextRealtime ==
  \/ emitCalled(Tab, "answer_submitted")
  \/ subscribe(Tab)
  \/ \E sub \in 1..MaxSubs : unsubscribe(Tab, sub)
  \/ cleanup(Tab)

SpecRealtime == InitRealtime /\ [][NextRealtime]_vars

(***************************************************************************)
(* The scoring code of submitAnswer on its own (the synchronous code from  *)
(* the lookup of the answer to player.score += points), run once on every  *)
(* question, answerId, timeSpent and earlier score of the sets below.      *)
(***************************************************************************)
ScoringPoints == {0, 1, 3, 1000}
ScoringTimeLimits == {-2, 0, 3, 20}
ScoringTimeSpents == {0, 1, 2, 3, 10, 20}
ScoringAnswerIds == {"", "a1", "a2", "a3", "zz"}
ScoringScores == {0, 750}

\* The answers of a question: one marked correct, or several.
ScoringAnswers ==
  { << [id |-> "a1", isCorrect |-> TRUE], [id |-> "a2", isCorrect |-> FALSE],
       [id |-> "a3", isCorrect |-> FALSE] >>,
    << [id |-> "a1", isCorrect |-> TRUE], [id |-> "a2", isCorrect |-> TRUE],
       [id |-> "a3", isCorrect |-> FALSE] >> }

ScoringQuestions ==
  { [id |-> "q1", timeLimit |-> timeLimit, points |-> points, answers |-> answers] :
      timeLimit \in ScoringTimeLimits, points \in ScoringPoints, answers \in ScoringAnswers }

InitScoring ==
  /\ rows = << >>
  /\ games = [p \in Procs |-> << >>]
  /\ local = [p \in Procs |-> Idle]
  /\ ret = NoReturn
  /\ nextId = 1
  /\ calls = 0
  /\ failures = 0
  /\ realtime = [p \in Procs |-> NewRealtime(FALSE)]
  /\ board = NoBoard
  /\ view = [p \in Procs |-> NewView(0)]
  /\ scoring \in
       { [phase |-> "input", question |-> question, answerId |-> answerId,
          timeSpent |-> timeSpent, scoreBefore |-> score,
          players |-> << [id |-> 1, name |-> "Alice", score |-> score, answers |-> << >>] >>,
          isCorrect |-> FALSE, points |-> 0] :
           question \in ScoringQuestions, answerId \in ScoringAnswerIds,
           timeSpent \in ScoringTimeSpents, score \in ScoringScores }

\* const answer = ...find(...); isCorrect; points; player.answers.push; player.score += points
ScoreAnswer ==
  /\ scoring.phase = "input"
  /\ LET currentQuestion == scoring.question
         isCorrect == IsCorrect(currentQuestion, scoring.answerId)
         points == computePoints(currentQuestion, isCorrect, scoring.timeSpent)
     IN scoring' = [scoring EXCEPT
                      !.phase = "scored", !.isCorrect = isCorrect, !.points = points,
                      !.players = RecordAnswer(@, 1, currentQuestion, scoring.answerId,
                                               scoring.timeSpent, isCorrect, points)]
  /\ UNCHANGED << rows, games, local, ret, nextId, calls, failures, realtime, board, view >>

NextScoring == ScoreAnswer

SpecScoring == InitScoring /\ [][NextScoring]_vars

(***************************************************************************)
(* The useGameState hooks (src/src/hooks/useGameState.ts) of two tabs on   *)
(* the modelled PIN: the host's (no playerId), whose page also calls       *)
(* createGameSession and nextQuestion of gameManager, and the hook of the  *)
(* player with the first player id.  connect and refreshGameData are a     *)
(* getGameByPin step and, after the suspension, a setState step; one such  *)
(* call is followed per hook.  refreshGameData is called by the change     *)
(* feed, by realtimeManager events, by the timers of the hook's own calls, *)
(* by the pages and, while subscribed, by the refresh interval.            *)
(***************************************************************************)
HostTab == "tab1"
PlayerTab == "tab2"

\* playerId ? game.players.find(p => p.id === playerId) || null : null
CurrentPlayerOf(fetched, playerId) ==
  IF fetched # << >> /\ playerId # 0 /\ FindPlayer(fetched[1].players, playerId) # 0
    THEN << fetched[1].players[FindPlayer(fetched[1].players, playerId)] >>
    ELSE << >>

\* Refreshed with the cached game kept when there is one: game: prev.game || game
Refreshed_KeepGame(v) ==
  [v EXCEPT !.game = IF v.game # << >> THEN v.game ELSE v.fetched,
            !.currentPlayer = CurrentPlayerOf(v.fetched, v.playerId),
            !.pending = "none", !.fetched = << >>, !.isConnected = TRUE]

\* Refreshed with the cached player kept when there is one:
\* currentPlayer: prev.currentPlayer || currentPlayer
Refreshed_KeepPlayer(v) ==
  [v EXCEPT !.game = v.fetched,
            !.currentPlayer = IF v.currentPlayer # << >> THEN v.currentPlayer
                              ELSE CurrentPlayerOf(v.fetched, v.playerId),
            !.pending = "none", !.fetched = << >>, !.isConnected = TRUE]

\* setState(prev => ({ ...prev, game, currentPlayer, ... })) of connect and refreshGameData
Refreshed(v) ==
  [v EXCEPT !.game = v.fetched,
            !.currentPlayer = CurrentPlayerOf(v.fetched, v.playerId),
            !.pending = "none", !.fetched = << >>, !.isConnected = TRUE]

\* connect(gamePin) up to its getGameByPin: the existing channel and
\* subscription are removed; 'Game not found' leaves the cached game.
connect(p) ==
  /\ view[p].pending = "none"
  /\ IF Found
       THEN /\ games' = [games EXCEPT ![p] = rows]
            /\ view' = [view EXCEPT ![p] =
                 [@ EXCEPT !.subscribed = FALSE, !.pending = "connect", !.fetched = rows]]
       ELSE /\ view' = [view EXCEPT ![p].subscribed = FALSE]
            /\ UNCHANGED games
  /\ UNCHANGED << rows, local, ret, nextId, calls, failures, scoring, realtime, board >>

\* connect after getGameByPin and getQuiz: setState, channel, subscription, interval
connected(p) ==
  /\ view[p].pending = "connect"
  /\ view' = [view EXCEPT ![p] = [Refreshed(@) EXCEPT !.subscribed = TRUE]]
  /\ UNCHANGED << rows, games, local, ret, nextId, calls, failures, scoring, realtime, board >>

\* refreshGameData() up to its getGameByPin; 'Game not found' leaves the cached game.
refreshGameData(p) ==
  /\ view[p].pending = "none"
  /\ IF Found
       THEN /\ games' = [games EXCEPT ![p] = rows]
            /\ view' = [view EXCEPT ![p] = [@ EXCEPT !.pending = "refresh", !.fetched = rows]]
       ELSE UNCHANGED << games, view >>
  /\ UNCHANGED << rows, local, ret, nextId, calls, failures, scoring, realtime, board >>

\* refreshGameData after getGameByPin and getQuiz: setState
refreshed(p) ==
  /\ view[p].pending = "refresh"
  /\ view' = [view EXCEPT ![p] = Refreshed(@)]
  /\ UNCHANGED << rows, games, local, ret, nextId, calls, failures, scoring, realtime, board >>

\* disconnect(): unsubscribe, remove the channel, clear the state; a call
\* that is past its getGameByPin goes on.
disconnect(p) ==
  /\ view[p].subscribed \/ view[p].game # << >>
  /\ view' = [view EXCEPT ![p] =
       [@ EXCEPT !.subscribed = FALSE, !.game = << >>, !.currentPlayer = << >>,
                 !.isConnected = FALSE]]
  /\ UNCHANGED << rows, games, local, ret, nextId, calls, failures, scoring, realtime, board >>

\* joinGame(gamePin, playerName): gameManager.addPlayerToGame
useGameState_joinGame(p, playerName) == addPlayerToGame(p, playerName)

\* startGame(): if (!state.game) return false; gameManager.startGame(state.game.pin)
useGameState_startGame(p) ==
  /\ view[p].game # << >>
  /\ startGame(p)

\* submitAnswer(questionId, answerId, timeSpent): if (!state.game || !state.currentPlayer)
\* return false; gameManager.submitAnswer(state.game.pin, state.currentPlayer.id, ...)
useGameState_submitAnswer(p, questionId, answerId, timeSpent) ==
  /\ view[p].game # << >>
  /\ view[p].currentPlayer # << >>
  /\ submitAnswer(p, view[p].currentPlayer[1].id, questionId, answerId, timeSpent)

InitFacade ==
  /\ rows = << >>
  /\ games = [p \in Procs |-> << >>]
  /\ local = [p \in Procs |-> Idle]
  /\ ret = NoReturn
  /\ nextId = 1
  /\ calls = 0
  /\ failures = 0
  /\ scoring = NoScoring
  /\ realtime = [p \in Procs |-> NewRealtime(FALSE)]
  /\ board = NoBoard
  /\ view = [p \in Procs |-> NewView(IF p = PlayerTab THEN 1 ELSE 0)]

Connect == \E p \in Procs : connect(p)
Connected == \E p \in Procs : connected(p)
RefreshGameData == \E p \in Procs : refreshGameData(p)
RefreshedView == \E p \in Procs : refreshed(p)
Disconnect == \E p \in Procs : disconnect(p)

\* The inputs of the calls where the hooks are followed.
FacadeQuizIds == {"quiz3"}
FacadeNames == {"Alice"}
FacadeQuestionIds == {"q2"}

\* A GameManager call may start where the hooks are followed.
FacadeCanCall == calls < MaxFacadeCalls

NextFacade ==
  \/ \E quizId \in FacadeQuizIds : FacadeCanCall /\ createGameSession(HostTab, quizId)
  \/ \E playerName \in FacadeNames : FacadeCanCall /\ useGameState_joinGame(PlayerTab, playerName)
  \/ addPlayerCommit(PlayerTab)
  \/ FacadeCanCall /\ useGameState_startGame(HostTab)
  \/ startGameCommit(HostTab)
  \/ \E questionId \in FacadeQuestionIds, answerId \in AnswerIds, timeSpent \in TimeSpents :
       FacadeCanCall /\ useGameState_submitAnswer(PlayerTab, questionId, answerId, timeSpent)
  \/ submitAnswerCommit(PlayerTab)
  \/ FacadeCanCall /\ nextQuestion(HostTab)
  \/ nextQuestionCommit(HostTab)
  \/ Connect
  \/ Connected
  \/ RefreshGameData
  \/ RefreshedView
  \/ Disconnect

SpecFacade == InitFacade /\ [][NextFacade]_vars

\* The refresh interval of a subscribed hook keeps calling refreshGameData
\* (setInterval), and a call that is past its getGameByPin gets its response.
FairFacade ==
  \A p \in Procs :
    /\ WF_vars(view[p].subscribed /\ refreshGameData(p))
    /\ WF_vars(refreshed(p))
    /\ WF_vars(connected(p))

SpecFacadeFair == InitFacade /\ [][NextFacade]_vars /\ FairFacade

(***************************************************************************)
(* getLeaderboard(pin) on its own, on the session a GameManager holds in   *)
(* the second question of quiz3 (or on none): up to MaxPlayers players,    *)
(* each with the answers and the score of one of the ways through the      *)
(* first two questions, in every order and with ties.                      *)
(***************************************************************************)
\* The comparator of the sort turned around: (a, b) => a.score - b.score
RECURSIVE sortByScore_Ascending(_)
sortByScore_Ascending(players) ==
  IF players = << >> THEN << >>
  ELSE LET n == Len(players)
           sorted == sortByScore_Ascending(SubSeq(players, 1, n - 1))
           k == Cardinality({i \in 1..(n - 1) : sorted[i].score <= players[n].score})
       IN SubSeq(sorted, 1, k) \o << players[n] >> \o SubSeq(sorted, k + 1, n - 1)

\* players.sort((a, b) => b.score - a.score): descending by score, players
\* of equal score in their earlier order (Array.prototype.sort is stable)
RECURSIVE sortByScore(_)
sortByScore(players) ==
  IF players = << >> THEN << >>
  ELSE LET n == Len(players)
           sorted == sortByScore(SubSeq(players, 1, n - 1))
           k == Cardinality({i \in 1..(n - 1) : sorted[i].score >= players[n].score})
       IN SubSeq(sorted, 1, k) \o << players[n] >> \o SubSeq(sorted, k + 1, n - 1)

\* The AnswerRecord submitAnswer pushes for the question.
AnswerOf(question, answerId) ==
  [questionId |-> question.id, answerId |-> answerId, timeSpent |-> 10,
   isCorrect |-> IsCorrect(question, answerId)]

\* The answers a player may have given to the first two questions.
LeaderboardAnswers ==
  { << >>,
    << AnswerOf(Question1, "a1") >>,
    << AnswerOf(Question1, "a2"), AnswerOf(Question2, "a2") >>,
    << AnswerOf(Question1, "a1"), AnswerOf(Question2, "a2") >> }

\* The rosters of n players: ids 1..n in the order of joining.
LeaderboardRosters(n) ==
  { [i \in 1..n |-> [id |-> i, name |-> IF i = 1 THEN "Alice" ELSE IF i = 2 THEN "Bob" ELSE "alice",
                     score |-> RecordedPoints("quiz3", answers[i]), answers |-> answers[i]]] :
      answers \in [1..n -> LeaderboardAnswers] }

\* games.get(pin) of the GameManager: no session, or a session with a roster.
LeaderboardCaches ==
  { << >> } \cup
  { << [quizId |-> "quiz3", status |-> "playing", currentQuestionIndex |-> 1,
        players |-> players, startedAt |-> TRUE, finishedAt |-> FALSE] >> :
      players \in UNION { LeaderboardRosters(n) : n \in 0..MaxPlayers } }

InitLeaderboard ==
  /\ \E cached \in LeaderboardCaches :
       /\ rows = cached
       /\ games = [p \in Procs |-> IF p = Tab THEN cached ELSE << >>]
       /\ board = [phase |-> "called", cached |-> cached, result |-> << >>]
  /\ local = [p \in Procs |-> Idle]
  /\ ret = NoReturn
  /\ nextId = 1
  /\ calls = 0
  /\ failures = 0
  /\ scoring = NoScoring
  /\ realtime = [p \in Procs |-> NewRealtime(FALSE)]
  /\ view = [p \in Procs |-> NewView(0)]

\* const game = this.games.get(pin); if (!game) return [];
\* return [...game.players].sort(...): the sort works on a copy
getLeaderboard(p) ==
  /\ board.phase = "called"
  /\ board' = [board EXCEPT
                 !.phase = "returned",
                 !.result = IF games[p] = << >> THEN << >>
                            ELSE sortByScore(games[p][1].players)]
  /\ UNCHANGED << rows, games, local, ret, nextId, calls, failures, scoring, realtime, view >>

NextLeaderboard == getLeaderboard(Tab)

SpecLeaderboard == InitLeaderboard /\ [][NextLeaderboard]_vars

(***************************************************************************)
(* Properties.                                                             *)
(***************************************************************************)
\* The stored session's roster (empty while there is no session).
StoredPlayers == IF Found THEN rows[1].players ELSE << >>

\* The ids of the players of a roster.
Ids(players) == {players[i].id : i \in 1..Len(players)}

\* The player with the given id in a roster that has one.
PlayerOf(players, id) == players[CHOOSE i \in 1..Len(players) : players[i].id = id]

\* The player has an AnswerRecord for the question id.
HasRecord(player, questionId) ==
  \E i \in 1..Len(player.answers) : player.answers[i].questionId = questionId

\* C1: the stored status only changes by waiting -> playing and
\* playing -> finished; it never moves backwards and never goes from waiting
\* directly to finished.
C1_StatusOrder ==
  [][ (Found /\ Found') =>
        \/ rows'[1].status = rows[1].status
        \/ rows[1].status = "waiting" /\ rows'[1].status = "playing"
        \/ rows[1].status = "playing" /\ rows'[1].status = "finished" ]_vars

\* C2: when the call that returned last is a successful submitAnswer for a
\* player and the question cursor has not moved, a second submitAnswer for
\* that player returns failure and leaves the stored session, hence the
\* player's score and answers, as the first call left it.
C2_SecondSubmitRejected ==
  [][ \A p \in Procs, questionId \in QuestionIds, answerId \in AnswerIds,
         timeSpent \in TimeSpents :
        ( /\ ret.op = "submitAnswer" /\ ret.ok
          /\ Found /\ HasCurrentQuestion(rows[1])
          /\ CurrentQuestion(rows[1]).id = ret.questionId
          /\ submitAnswer(p, ret.playerId, questionId, answerId, timeSpent) )
        => /\ ret'.op = "submitAnswer" /\ ~ret'.ok
           /\ ret'.playerId = ret.playerId
           /\ local'[p].op = "idle"
           /\ rows' = rows ]_vars

\* C2 witness: a second submission was rejected as a duplicate while the
\* player's record and points of the first one are in the store.
C2_Witness ==
  /\ ret.op = "submitAnswer" /\ ~ret.ok
  /\ ret.error = "Player already answered this question"
  /\ Found /\ rows[1].status = "playing"
  /\ ret.playerId \in Ids(rows[1].players)
  /\ LET player == PlayerOf(rows[1].players, ret.playerId)
     IN /\ Len(player.answers) = 1
        /\ player.answers[1].questionId = ret.questionId
        /\ player.score > 0

\* C3: of two submitAnswer calls for the same player and the same question
\* that complete one right after the other (their fetches and commits
\* interleaved), at most one returns success: the call that completes second
\* returns failure and leaves the stored row as it is, so the player keeps at
\* most one AnswerRecord for the question.
C3_AtMostOneSuccess ==
  [][ \A p \in Procs :
        ( /\ submitAnswerCommit(p)
          /\ ret.op = "submitAnswer" /\ ret.ok /\ ret.proc # p
          /\ ret.playerId = local[p].playerId
          /\ ret.questionId = local[p].questionId
          /\ local'[p].op = "idle" )
        => /\ ~ret'.ok
           /\ rows' = rows ]_vars

\* C4: when two submitAnswer calls of two different players for the same
\* question both return success, the stored session holds the AnswerRecord
\* and the score of both players.
C4_BothRecorded ==
  [][ \A p \in Procs :
        ( /\ submitAnswerCommit(p)
          /\ ret.op = "submitAnswer" /\ ret.ok /\ ret.proc # p
          /\ ret.playerId # local[p].playerId
          /\ ret.questionId = local[p].questionId
          /\ ret'.ok /\ ret'.proc = p )
        => \A id \in {ret.playerId, ret'.playerId} :
             /\ id \in Ids(rows'[1].players)
             /\ HasRecord(PlayerOf(rows'[1].players, id), ret.questionId)
             /\ id \in Ids(rows[1].players) =>
                  PlayerOf(rows'[1].players, id).score
                    >= PlayerOf(rows[1].players, id).score ]_vars

\* C5: every stored score is a non-negative integer and never decreases
\* from one state to the next.
C5_ScoreMonotone ==
  [][ \A id \in Ids(StoredPlayers') :
        /\ PlayerOf(StoredPlayers', id).score \in Nat
        /\ id \in Ids(StoredPlayers) =>
             PlayerOf(StoredPlayers', id).score >= PlayerOf(StoredPlayers, id).score ]_vars

\* C6: addPlayerToGame on a playing or finished session returns failure and
\* leaves the roster alone, and a player is added to the stored roster only
\* while the stored status is waiting.
C6_JoinOnlyWhileWaiting ==
  [][ /\ \A p \in Procs, playerName \in Names :
           ( /\ Found /\ rows[1].status # "waiting"
             /\ addPlayerToGame(p, playerName) )
           => ~ret'.ok /\ ret'.op = "addPlayerToGame" /\ rows' = rows
      /\ (Found /\ Ids(StoredPlayers') \ Ids(StoredPlayers) # {})
           => rows[1].status = "waiting" ]_vars

\* Two names are equal ignoring letter case.
SameNameIgnoringCase(a, b) == ToLowerCase(a) = ToLowerCase(b)

\* No two players of the roster have names that are equal ignoring case.
NamesUnique(players) ==
  \A i, j \in 1..Len(players) :
    i # j => ~SameNameIgnoringCase(players[i].name, players[j].name)

\* C7 as stated: addPlayerToGame is rejected with 'Name already taken'
\* whenever a player with the same name ignoring case is in the session, the
\* roster is unchanged, and no session holds two such players.
C7_NameTakenAlways ==
  /\ [][ \A p \in Procs, playerName \in Names :
           ( /\ Found
             /\ \E i \in 1..Len(rows[1].players) :
                  SameNameIgnoringCase(rows[1].players[i].name, playerName)
             /\ addPlayerToGame(p, playerName) )
           => /\ ret'.op = "addPlayerToGame" /\ ~ret'.ok
              /\ ret'.error = "Name already taken"
              /\ rows' = rows ]_vars
  /\ [](NamesUnique(StoredPlayers)
          /\ \A p \in Procs : Len(games[p]) = 1 => NamesUnique(games[p][1].players))

\* C7 amended: on a waiting session addPlayerToGame is rejected with
\* 'Name already taken' whenever a player with the same name ignoring case
\* is in the session, the roster is unchanged by the rejected call, and no
\* session, stored or held in memory, has two players with names equal
\* ignoring case.
C7_NameTakenWhileWaiting ==
  /\ [][ \A p \in Procs, playerName \in Names :
           ( /\ Found /\ rows[1].status = "waiting"
             /\ \E i \in 1..Len(rows[1].players) :
                  SameNameIgnoringCase(rows[1].players[i].name, playerName)
             /\ addPlayerToGame(p, playerName) )
           => /\ ret'.op = "addPlayerToGame" /\ ~ret'.ok
              /\ ret'.error = "Name already taken"
              /\ local'[p].op = "idle"
              /\ rows' = rows ]_vars
  /\ [](NamesUnique(StoredPlayers)
          /\ \A p \in Procs : Len(games[p]) = 1 => NamesUnique(games[p][1].players))

\* C7 witness: a join was rejected with 'Name already taken' on a waiting
\* session whose roster still has exactly the earlier player.
C7_Witness ==
  /\ ret.op = "addPlayerToGame" /\ ~ret.ok /\ ret.error = "Name already taken"
  /\ Found /\ rows[1].status = "waiting"
  /\ Len(rows[1].players) = 1

\* C8: startGame on a waiting session with zero players returns false and
\* leaves the stored session unchanged (status waiting).
C8_StartNeedsPlayers ==
  [][ \A p \in Procs :
        ( /\ Found /\ rows[1].status = "waiting" /\ Len(rows[1].players) = 0
          /\ startGame(p) )
        => /\ ret'.op = "startGame" /\ ~ret'.ok
           /\ local'[p].op = "idle"
           /\ rows' = rows /\ rows'[1].status = "waiting" ]_vars

\* C8 witness: startGame has returned false for lack of players and the
\* session is still waiting with an empty roster.
C8_Witness ==
  /\ ret.op = "startGame" /\ ~ret.ok /\ ret.error = "no players"
  /\ Found /\ rows[1].status = "waiting" /\ Len(rows[1].players) = 0

\* C9: right after a successful startGame the stored session has status
\* playing, startedAt set and currentQuestionIndex 0.
C9_StartResetsCursor ==
  [][ \A p \in Procs :
        (startGameCommit(p) /\ ret'.op = "startGame" /\ ret'.ok)
        => /\ rows'[1].status = "playing"
           /\ rows'[1].startedAt
           /\ rows'[1].currentQuestionIndex = 0 ]_vars

\* C10: a nextQuestion that takes the cursor of a started session to the
\* number of questions or beyond leaves the status finished, and once the
\* session is finished no nextQuestion call changes currentQuestionIndex.
C10_NoAdvancePastFinish ==
  [][ \A p \in Procs :
        /\ ( /\ nextQuestionCommit(p) /\ ret'.ok
             /\ rows[1].status = "playing"
             /\ rows'[1].currentQuestionIndex >= Len(getQuiz(rows[1].quizId)) )
           => rows'[1].status = "finished"
        /\ ( /\ nextQuestion(p) \/ nextQuestionCommit(p)
             /\ Found /\ rows[1].startedAt /\ rows[1].status = "finished"
             /\ rows[1].currentQuestionIndex >= Len(getQuiz(rows[1].quizId)) )
           => rows'[1].currentQuestionIndex = rows[1].currentQuestionIndex ]_vars

\* C11: whenever the stored currentQuestionIndex is at or beyond the number
\* of questions of the session's quiz, the stored status is finished.
C11_PastEndIsFinished ==
  Found =>
    ( rows[1].currentQuestionIndex >= Len(getQuiz(rows[1].quizId))
        => rows[1].status = "finished" )

\* C12: a nextQuestion call that fetched a session whose status is not
\* playing returns failure, and the stored currentQuestionIndex, status and
\* finishedAt are as before.
C12_AdvanceOnlyWhilePlaying ==
  [][ \A p \in Procs :
        ( /\ nextQuestionCommit(p)
          /\ local[p].game[1].status # "playing" )
        => /\ ret'.op = "nextQuestion" /\ ~ret'.ok
           /\ rows'[1].currentQuestionIndex = rows[1].currentQuestionIndex
           /\ rows'[1].status = rows[1].status
           /\ rows'[1].finishedAt = rows[1].finishedAt ]_vars

\* C13: in a step from a state whose stored status is playing to a state
\* whose stored status is playing, the stored currentQuestionIndex does not
\* decrease.
C13_CursorMonotoneWhilePlaying ==
  [][ ( /\ Found /\ rows[1].status = "playing"
        /\ Found' /\ rows'[1].status = "playing" )
      => rows'[1].currentQuestionIndex >= rows[1].currentQuestionIndex ]_vars

\* C14: whatever questionId the caller passes, a submitAnswer call is accepted
\* only when the player has no AnswerRecord for the current question of the
\* fetched session, and the accepted call appends one AnswerRecord that
\* carries the id of that question, with isCorrect and points resolved
\* against that question; the record a successful call stores carries that id.
C14_ScoresAgainstCursor ==
  [][ \A p \in Procs :
        /\ ( /\ local[p].op = "idle" /\ local'[p].op = "submitAnswer"
             /\ \E timeSpent \in TimeSpents :
                  submitAnswer(p, local'[p].playerId, local'[p].questionIdArg,
                               local'[p].answerId, timeSpent) )
           => LET currentQuestion == CurrentQuestion(rows[1])
                  i == FindPlayer(rows[1].players, local'[p].playerId)
                  before == rows[1].players[i]
                  after == games'[p][1].players[i]
                  answerId == local'[p].answerId
                  isCorrect == IsCorrect(currentQuestion, answerId)
              IN /\ ~AlreadyAnswered(before, currentQuestion)
                 /\ local'[p].questionId = currentQuestion.id
                 /\ Len(after.answers) = Len(before.answers) + 1
                 /\ \A k \in 1..Len(before.answers) : after.answers[k] = before.answers[k]
                 /\ LET record == after.answers[Len(after.answers)]
                    IN /\ record.questionId = currentQuestion.id
                       /\ record.answerId = answerId
                       /\ record.isCorrect = isCorrect
                       /\ after.score =
                            before.score + computePoints(currentQuestion, isCorrect, record.timeSpent)
        /\ (submitAnswerCommit(p) /\ local'[p].op = "idle" /\ ret'.ok)
             => /\ ret'.questionId = local[p].questionId
                /\ HasRecord(PlayerOf(rows'[1].players, local[p].playerId), local[p].questionId) ]_vars

\* C14 witness: a call that named another question than the current one is
\* in flight, and the record it appended carries the id of the current
\* question of its session.
C14_Witness ==
  \E p \in Procs :
    /\ local[p].op = "submitAnswer"
    /\ local[p].questionIdArg # local[p].questionId
    /\ HasCurrentQuestion(games[p][1])
    /\ CurrentQuestion(games[p][1]).id = local[p].questionId
    /\ HasRecord(PlayerOf(games[p][1].players, local[p].playerId), local[p].questionId)
    /\ ~HasRecord(PlayerOf(games[p][1].players, local[p].playerId), local[p].questionIdArg)

\* C15: for a question with timeLimit > 0 and 0 <= timeSpent <= timeLimit,
\* the points of a correct answer lie in [floor(points * 0.5), points], and
\* no later timeSpent up to timeLimit earns more.
C15_AwardInRange ==
  ( /\ scoring.phase = "scored" /\ scoring.isCorrect
    /\ scoring.question.timeLimit > 0
    /\ scoring.timeSpent >= 0 /\ scoring.timeSpent <= scoring.question.timeLimit )
  => /\ scoring.points >= scoring.question.points \div 2
     /\ scoring.points <= scoring.question.points
     /\ \A timeSpent2 \in ScoringTimeSpents :
          (timeSpent2 >= scoring.timeSpent /\ timeSpent2 <= scoring.question.timeLimit)
            => computePoints(scoring.question, TRUE, timeSpent2) <= scoring.points

\* C16: for a question with timeLimit > 0 the points added for a correct
\* answer are base + floor(base * timeRatio), with base = floor(points * 0.5)
\* and timeRatio = max(0, (timeLimit - timeSpent) / timeLimit).
C16_AwardIsBasePlusBonus ==
  ( /\ scoring.phase = "scored" /\ scoring.isCorrect
    /\ scoring.question.timeLimit > 0 )
  => LET timeLimit == scoring.question.timeLimit
         base == scoring.question.points \div 2
         left == IF timeLimit - scoring.timeSpent > 0 THEN timeLimit - scoring.timeSpent ELSE 0
     IN /\ scoring.points = base + ((base * left) \div timeLimit)
        /\ scoring.players[1].score = scoring.scoreBefore + scoring.points

\* C17: the AnswerRecord appended has isCorrect = true exactly when an
\* answer of the question with the submitted answerId is marked correct; an
\* answerId that is empty, matches no answer or matches an answer that is
\* not marked correct earns no points and leaves the score as it was.
C17_IncorrectScoresNothing ==
  scoring.phase = "scored" =>
    LET question == scoring.question
        player == scoring.players[1]
        marked == \E i \in 1..Len(question.answers) :
                    /\ question.answers[i].id = scoring.answerId
                    /\ question.answers[i].isCorrect
    IN /\ Len(player.answers) = 1
       /\ player.answers[1].answerId = scoring.answerId
       /\ player.answers[1].isCorrect = marked
       /\ ~marked => (scoring.points = 0 /\ player.score = scoring.scoreBefore)

\* C17 witness: an answerId that matches no answer was scored on a question
\* with several answers marked correct, and the player's earlier score of
\* 750 is unchanged.
C17_Witness ==
  /\ scoring.phase = "scored"
  /\ scoring.answerId = "zz"
  /\ \E i, j \in 1..Len(scoring.question.answers) :
       i # j /\ scoring.question.answers[i].isCorrect /\ scoring.question.answers[j].isCorrect
  /\ ~scoring.players[1].answers[1].isCorrect
  /\ scoring.scoreBefore = 750 /\ scoring.players[1].score = 750

\* C18: for a question with timeLimit <= 0 the points of a correct answer
\* are exactly floor(points * 0.5), and the player's score stays a
\* non-negative integer.
C18_NoBonusWithoutTimeLimit ==
  ( /\ scoring.phase = "scored" /\ scoring.isCorrect
    /\ scoring.question.timeLimit <= 0 )
  => /\ scoring.points = scoring.question.points \div 2
     /\ scoring.players[1].score # NaN
     /\ scoring.players[1].score \in Nat

\* The number of update requests the call in flight in process p has issued,
\* the pending one included.
Attempts(p) == IF local[p].op = "submitAnswer" THEN local[p].attempt ELSE 1

\* C19: when a call returns failure because its commit failed, the session
\* the process holds in memory shows nothing of the call: not the player it
\* wanted to add, not the AnswerRecord or points it computed, not the status
\* or the cursor it wanted to write.
C19_FailedCommitLeavesMemory ==
  [][ \A p \in Procs :
        ( /\ local[p].op # "idle" /\ local'[p].op = "idle"
          /\ ret'.proc = p /\ ~ret'.ok )
        => /\ Len(games'[p]) = 1
           /\ LET game == games'[p][1]
              IN CASE local[p].op = "addPlayerToGame" ->
                        local[p].player.id \notin Ids(game.players)
                   [] local[p].op = "startGame" ->
                        game.status = "waiting"
                   [] local[p].op = "nextQuestion" ->
                        game.currentQuestionIndex = local[p].newQuestionIndex - 1
                   [] local[p].op = "submitAnswer" ->
                        /\ local[p].playerId \in Ids(game.players)
                        /\ ~HasRecord(PlayerOf(game.players, local[p].playerId),
                                      local[p].questionId) ]_vars

\* C20: a call returns failure from its commit only when its third update
\* request has failed (an earlier failed request is followed by another
\* request), and no call issues more than 3 update requests.
C20_CommitRetried ==
  /\ [][ \A p \in Procs :
           ( /\ local[p].op # "idle" /\ local'[p].op = "idle"
             /\ ret'.proc = p /\ ~ret'.ok )
           => Attempts(p) = maxRetries ]_vars
  /\ [](\A p \in Procs : local[p].op # "idle" => Attempts(p) <= maxRetries)

C22_OneRecordPerQuestion ==
  Found => \A i \in 1..Len(rows[1].players) :
             LET answers == rows[1].players[i].answers
             IN \A j, k \in 1..Len(answers) :
                  answers[j].questionId = answers[k].questionId => j = k

\* C22 witness: the stored session holds two players with one AnswerRecord
\* each for the first question.
C22_Witness ==
  /\ Found /\ Len(rows[1].players) = 2
  /\ \A i \in 1..2 : /\ Len(rows[1].players[i].answers) = 1
                     /\ rows[1].players[i].answers[1].questionId = "q1"

\* The session is active: waiting or playing.
Active(row) == row.status \in {"waiting", "playing"}

\* C23: no two active sessions hold the same PIN, and a session that is
\* active and reachable by its PIN stays reachable by it whatever sessions
\* are created.
C23_ActivePinNotReused ==
  /\ [](Cardinality({i \in 1..Len(rows) : Active(rows[i])}) <= 1)
  /\ [][ (Found /\ Active(rows[1])) => Found' ]_vars

\* C24: createGameSession for a quiz id that has no quiz fails with
\* 'Quiz not found' and leaves the store, the session held in memory and the
\* RealtimeManager (history, deliveries, timers) as they were; for an
\* existing quiz, the session it returns is in the store and in memory with
\* status waiting, currentQuestionIndex 0 and no players.
C24_CreateNeedsQuiz ==
  [][ \A quizId \in QuizIds :
        createGameSession(Tab, quizId) =>
          IF quizId = "missing"
            THEN /\ ~ret'.ok /\ ret'.error = "Quiz not found"
                 /\ rows' = rows /\ games' = games /\ realtime' = realtime
            ELSE ret'.ok =>
                   /\ rows' = << NewSession(quizId) >>
                   /\ games'[Tab] = rows'
                   /\ rows'[1].status = "waiting"
                   /\ rows'[1].currentQuestionIndex = 0
                   /\ rows'[1].players = << >> ]_vars

\* C24 witness: a createGameSession for a missing quiz has failed after
\* another one had created the session, which is as it was created.
C24_Witness ==
  /\ ret.op = "createGameSession" /\ ~ret.ok /\ ret.error = "Quiz not found"
  /\ rows = << NewSession("quiz3") >>
  /\ games[Tab] = rows
  /\ Len(realtime[Tab].history) = 1

\* C26: a subscribe call is replayed the whole retained history of the PIN
\* (the last MaxHistory = 50 events emitted since the last cleanup), oldest
\* first.
C26_ReplaysRetainedHistory ==
  [][ LET rt == realtime[Tab]
          after == realtime'[Tab]
      IN after.nextSub = rt.nextSub + 1 =>
           after.delivered = [i \in 1..Len(rt.history) |->
                                [sub |-> rt.nextSub, event |-> rt.history[i]]] ]_vars

\* C28: every event in the history and every event handed to a subscriber
\* has one of the six types of RealtimeEvent.type.
C28_EventsInTaxonomy ==
  /\ \A i \in 1..Len(realtime[Tab].history) :
       realtime[Tab].history[i].type \in EventTypes
  /\ \A i \in 1..Len(realtime[Tab].delivered) :
       realtime[Tab].delivered[i].event.type \in EventTypes

\* C29: an emit invokes no callback whose unsubscribe function has been
\* called and invokes every subscription that is in place; a call of an
\* unsubscribe function (the first, a repeated one, one after cleanup and
\* new subscriptions) removes that subscription and no other.
C29_UnsubscribeStopsDelivery ==
  [][ LET rt == realtime[Tab]
          after == realtime'[Tab]
      IN /\ after.clock = rt.clock + 1 =>
              /\ \A i \in 1..Len(after.delivered) :
                   after.delivered[i].sub \notin rt.unsubscribed
              /\ \A sub \in Range(rt.subscriptions) :
                   \E i \in 1..Len(after.delivered) :
                     /\ after.delivered[i].sub = sub
                     /\ after.delivered[i].event.timestamp = after.clock
         /\ \A sub \in 1..MaxSubs :
              unsubscribe(Tab, sub) =>
                Range(after.subscriptions) = Range(rt.subscriptions) \ {sub} ]_vars

\* C29 witness: the unsubscribe function of the first subscription has been
\* called, two later subscriptions are in place, and the event emitted last
\* was handed to these two and to no other.
C29_Witness ==
  LET rt == realtime[Tab]
  IN /\ rt.unsubscribed = {1}
     /\ rt.subscriptions = << 2, 3 >>
     /\ rt.history # << >>
     /\ Len(rt.delivered) = 2
     /\ \A i \in 1..2 : /\ rt.delivered[i].sub = rt.subscriptions[i]
                        /\ rt.delivered[i].event.timestamp = rt.clock

\* C25: getLeaderboard returns the empty list when the GameManager holds no
\* session for the PIN; otherwise it returns every player of the session
\* exactly once, each with a score >= the score of the player after it, and
\* the session's own players list is in the order it was in.
C25_LeaderboardSorted ==
  board.phase = "returned" =>
    /\ games[Tab] = board.cached
    /\ IF board.cached = << >>
         THEN board.result = << >>
         ELSE LET players == board.cached[1].players
                  result == board.result
              IN /\ Len(result) = Len(players)
                 /\ \A i \in 1..Len(players) :
                      Cardinality({j \in 1..Len(result) : result[j] = players[i]}) = 1
                 /\ \A j \in 1..(Len(result) - 1) : result[j].score >= result[j + 1].score

\* C25 witness: the leaderboard of three players who joined in ascending
\* order of score, two of them tied, is returned in another order than the
\* session's list.
C25_Witness ==
  /\ board.phase = "returned"
  /\ board.cached # << >>
  /\ LET players == board.cached[1].players
     IN /\ Len(players) = 3
        /\ players[1].score = 0 /\ players[2].score = 750 /\ players[3].score = 750
        /\ board.result = << players[2], players[3], players[1] >>

\* The hook of process p, while subscribed, holds the stored session.
Synced(p) == view[p].subscribed => view[p].game = rows

C30_CacheOnlyReplaced ==
  [][ \A p \in Procs :
        /\ (view[p].pending = "none" /\ view'[p].pending # "none")
             => view'[p].fetched = rows
        /\ (view'[p].game # view[p].game \/ view'[p].currentPlayer # view[p].currentPlayer)
             => \/ /\ view[p].pending # "none" /\ view'[p].pending = "none"
                   /\ view'[p].game = view[p].fetched
                   /\ view'[p].currentPlayer = CurrentPlayerOf(view[p].fetched, view[p].playerId)
                \/ /\ view'[p].game = << >> /\ view'[p].currentPlayer = << >>
                   /\ ~view'[p].subscribed
                   /\ view'[p].pending = view[p].pending
        /\ (local'[p] # local[p]) => view' = view ]_vars

\* C30 witness: the player's submitAnswer has returned success and the
\* store holds the points, while the player's hook still shows the score 0
\* of the session it fetched before.
C30_Witness ==
  /\ ret.op = "submitAnswer" /\ ret.ok /\ ret.proc = PlayerTab
  /\ Found /\ rows[1].players[1].score = 750
  /\ view[PlayerTab].currentPlayer # << >>
  /\ view[PlayerTab].currentPlayer[1].score = 0
  /\ view[PlayerTab].game # rows

(***************************************************************************)
(* The GameManager of one tab, with submitAnswer called with any timeSpent *)
(* (the argument is a number the caller computes: negative, zero, the time *)
(* limit, beyond the time limit).                                          *)
(***************************************************************************)
AnyTimeSpents == {-5, 0, 20, 25}

NextTimeSpent ==
  \/ \E quizId \in FacadeQuizIds : createGameSession(Tab, quizId)
  \/ \E playerName \in Names : addPlayerToGame(Tab, playerName)
  \/ addPlayerCommit(Tab)
  \/ startGame(Tab)
  \/ startGameCommit(Tab)
  \/ \E playerId \in PlayerIds, questionId \in FacadeQuestionIds,
        answerId \in AnswerIds, timeSpent \in AnyTimeSpents :
       submitAnswer(Tab, playerId, questionId, answerId, timeSpent)
  \/ submitAnswerCommit(Tab)
  \/ nextQuestion(Tab)
  \/ nextQuestionCommit(Tab)

SpecTimeSpent == Init /\ [][NextTimeSpent]_vars

\* C31: every AnswerRecord of the stored session has a timeSpent between 0
\* and the timeLimit of the question it names, whatever timeSpent the
\* callers of submitAnswer passed.
C31_TimeSpentInRange ==
  Found => \A i \in 1..Len(rows[1].players) :
             LET answers == rows[1].players[i].answers
             IN \A j \in 1..Len(answers) :
                  /\ answers[j].timeSpent >= 0
                  /\ answers[j].timeSpent
                       <= QuestionById(rows[1].quizId, answers[j].questionId).timeLimit


\* C32: a submitAnswer call for a PIN that has no session, for a session
\* whose status is waiting or finished, or for a playerId that is not in the
\* session returns false at once, leaves the stored session (every player's
\* answers and score) as it was, leaves the session held in memory equal to
\* the stored one, and hands no event to the RealtimeManager.
C32_SubmitRejected ==
  [][ \A playerId \in PlayerIds, questionId \in QuestionIds,
         answerId \in AnswerIds, timeSpent \in TimeSpents :
        ( /\ submitAnswer(Tab, playerId, questionId, answerId, timeSpent)
          /\ \/ ~Found
             \/ rows[1].status \in {"waiting", "finished"}
             \/ playerId \notin Ids(rows[1].players) )
        => /\ ret'.op = "submitAnswer" /\ ~ret'.ok
           /\ local'[Tab].op = "idle"
           /\ rows' = rows
           /\ games'[Tab] = IF Found THEN rows ELSE games[Tab]
           /\ realtime' = realtime ]_vars

\* C32 witness: a submitAnswer for a playerId that is not in the playing
\* session has returned false, after another player's answer had been
\* stored with its points and its event.
C32_Witness ==
  /\ ret.op = "submitAnswer" /\ ~ret.ok
  /\ ret.error = "Player or current question not found"
  /\ Found /\ rows[1].status = "playing" /\ HasCurrentQuestion(rows[1])
  /\ ret.playerId \notin Ids(rows[1].players)
  /\ Len(rows[1].players) = 1 /\ rows[1].players[1].score = 750
  /\ games[Tab] = rows
  /\ \E i \in 1..Len(realtime[Tab].history) :
       realtime[Tab].history[i].type = "answer_submitted"


\* C33: a player who is in the stored roster (put there by the commit of an
\* addPlayerToGame call that returned success) is in the stored roster of
\* the session in every later state, whatever addPlayerToGame and
\* submitAnswer calls of other processes interleave (no call removes
\* players here).
C33_JoinedPlayersStay ==
  [][ Found => Ids(StoredPlayers) \subseteq Ids(StoredPlayers') ]_vars


\* C34: every nextQuestion call on a playing session that returns success
\* moves the stored currentQuestionIndex forward by exactly one, so that k
\* successful calls move it by k, also when the fetch and commit steps of two
\* calls interleave.
C34_AdvanceByOne ==
  [][ \A p \in Procs :
        ( /\ nextQuestionCommit(p) /\ ret'.ok
          /\ local[p].game[1].status = "playing"
          /\ rows[1].status = "playing" )
        => rows'[1].currentQuestionIndex = rows[1].currentQuestionIndex + 1 ]_vars


(***************************************************************************)
(* The RealtimeManager of one tab with subscribers of two PINs.            *)
(*                                                                         *)
(* SpecDelivery: callbacks of every kind subscribe to either PIN, the      *)
(* unsubscribe functions are called from outside and by the callbacks of   *)
(* kind "once" while emit iterates, and emit is called for either PIN.     *)
(*                                                                         *)
(* SpecHistory: emit is called for either PIN until the history of the     *)
(* modelled PIN is cut to its last 50 events, and callbacks that return    *)
(* subscribe to either PIN.                                                *)
(***************************************************************************)
NextDelivery ==
  \/ \E pin \in Pins, kind \in CallbackKinds : subscribeTo(Tab, pin, kind)
  \/ \E pin \in Pins :
       realtime[Tab].clock < MaxDeliveries /\ emitCalledTo(Tab, pin, "answer_submitted")
  \/ \E sub \in 1..MaxSubs : unsubscribe(Tab, sub)

SpecDelivery == InitRealtime /\ [][NextDelivery]_vars

NextHistory ==
  \/ emitCalled(Tab, "answer_submitted")
  \/ /\ realtime[Tab].clock < MaxEmits
     /\ Len(realtime[Tab].otherHistory) < MaxOtherEmits
     /\ emitCalledTo(Tab, OtherPin, "answer_submitted")
  \/ \E pin \in Pins : subscribeTo(Tab, pin, "plain")

SpecHistory == InitRealtime /\ [][NextHistory]_vars

\* C35: an emit for a PIN calls, with the event it was given, every
\* subscription that is in the array of that PIN when the emit starts
\* exactly once (the callbacks unsubscribe nobody but themselves, after they
\* were called; a callback that throws is one of those called), and calls
\* no subscription of the other PIN.
C35_EveryoneCalledOnce ==
  [][ \A pin \in Pins :
        emitCalledTo(Tab, pin, "answer_submitted") =>
          LET rt == realtime[Tab]
              before == IF pin = Pin THEN rt.subscriptions ELSE rt.otherSubscriptions
              delivered == realtime'[Tab].delivered
          IN /\ \A sub \in Range(before) :
                  Cardinality({i \in 1..Len(delivered) : delivered[i].sub = sub}) = 1
             /\ \A i \in 1..Len(delivered) :
                  /\ delivered[i].sub \in Range(before)
                  /\ rt.closures[delivered[i].sub].pin = pin
                  /\ delivered[i].event.gamePin = pin
                  /\ delivered[i].event.timestamp = realtime'[Tab].clock ]_vars


\* The timestamps of the events emitted for the modelled PIN so far (no
\* event of the other PIN has left its history).
PinStamps ==
  LET rt == realtime[Tab]
  IN {t \in 1..rt.clock :
        \A i \in 1..Len(rt.otherHistory) : rt.otherHistory[i].timestamp # t}

\* C36: the history of the PIN has at most 50 entries and is the most
\* recent min(50, n) of the n events emitted for the PIN, in the order of
\* emission; a subscribe call calls the new callback, before it returns,
\* with the last min(5, length) entries of the history of its PIN, in
\* order, and with no entry of the other PIN.
C36_HistoryAndReplay ==
  /\ [](LET history == realtime[Tab].history
            kept == IF Cardinality(PinStamps) < MaxHistory
                      THEN Cardinality(PinStamps) ELSE MaxHistory
        IN /\ Len(history) <= 50
           /\ Len(history) = kept
           /\ \A i \in 1..Len(history) :
                /\ history[i].gamePin = Pin
                /\ history[i].timestamp \in PinStamps
                /\ Cardinality({t \in PinStamps : t > history[i].timestamp})
                     = Len(history) - i)
  /\ [][ \A pin \in Pins :
           subscribeTo(Tab, pin, "plain") =>
             LET rt == realtime[Tab]
                 history == IF pin = Pin THEN rt.history ELSE rt.otherHistory
                 delivered == realtime'[Tab].delivered
             IN /\ Len(delivered) = IF Len(history) < 5 THEN Len(history) ELSE 5
                /\ \A i \in 1..Len(delivered) :
                     /\ delivered[i].sub = rt.nextSub
                     /\ delivered[i].event = history[Len(history) - Len(delivered) + i]
                     /\ delivered[i].event.gamePin = pin ]_vars

\* C36 witness: more than 50 events were emitted for the PIN and one for
\* the other PIN, the history holds the last 50, and the subscribe call that
\* returned last was called with the last 5 of them.
C36_Witness ==
  LET rt == realtime[Tab]
  IN /\ Len(rt.history) = 50 /\ rt.history[1].timestamp > 2
     /\ Len(rt.otherHistory) = 1
     /\ rt.subscriptions # << >>
     /\ Len(rt.delivered) = 5
     /\ \A i \in 1..5 : /\ rt.delivered[i].sub = rt.nextSub - 1
                        /\ rt.delivered[i].event = rt.history[45 + i]


\* C37: the RealtimeManager is handed an event only by a call that returns
\* success in the step of its store write, with the mutation of the event
\* in the store (the player in the roster, the status playing, the record
\* of the answer, the cursor moved, the status finished), or by a timer set
\* by a startGame that had written its update; a call that returns failure,
\* from its checks or from its write, and a write that is retried leave the
\* RealtimeManager as it was.
C37_EventsFollowCommits ==
  [][ LET rt == realtime[Tab]
          after == realtime'[Tab]
          event == after.history[Len(after.history)]
          returns == local'[Tab].op = "idle" /\ (ret' # ret \/ local'[Tab] # local[Tab])
      IN /\ after.clock # rt.clock =>
              \/ /\ rt.timers # << >> /\ after.timers = Tail(rt.timers)
                 /\ event.type = "question_started"
                 /\ rows' = rows /\ Found /\ rows[1].startedAt
              \/ /\ returns /\ ret'.ok /\ ret'.proc = Tab
                 /\ after.timers # rt.timers => event.type = "game_started"
                 /\ Found'
                 /\ CASE event.type = "player_joined" ->
                           /\ ret'.op = "addPlayerToGame"
                           /\ ret'.playerId \notin Ids(rows[1].players)
                           /\ ret'.playerId \in Ids(rows'[1].players)
                      [] event.type = "game_started" ->
                           /\ ret'.op = "startGame"
                           /\ rows[1].status = "waiting" /\ rows'[1].status = "playing"
                      [] event.type = "answer_submitted" ->
                           /\ ret'.op = "submitAnswer"
                           /\ ~HasRecord(PlayerOf(rows[1].players, ret'.playerId), ret'.questionId)
                           /\ HasRecord(PlayerOf(rows'[1].players, ret'.playerId), ret'.questionId)
                      [] event.type = "question_started" ->
                           /\ ret'.op = "nextQuestion"
                           /\ rows'[1].currentQuestionIndex = rows[1].currentQuestionIndex + 1
                           /\ rows'[1].currentQuestionIndex < Len(getQuiz(rows[1].quizId))
                      [] event.type = "game_ended" ->
                           /\ ret'.op = "nextQuestion"
                           /\ rows'[1].currentQuestionIndex = rows[1].currentQuestionIndex + 1
                           /\ rows'[1].status = "finished"
                      [] OTHER ->
                           /\ ret'.op = "createGameSession"
                           /\ rows = << >>
         /\ (returns /\ ~ret'.ok) => realtime' = realtime
         /\ (local'[Tab] # local[Tab] /\ local'[Tab].op # "idle") => realtime' = realtime ]_vars

\* C37 witness: the update of a nextQuestion call has failed and the call
\* has returned false; the history ends with the events of the three calls
\* that were committed, and the cursor is where it was.
C37_Witness ==
  /\ ret.op = "nextQuestion" /\ ~ret.ok /\ ret.error = "Error updating question"
  /\ Found /\ rows[1].status = "playing" /\ rows[1].currentQuestionIndex = 0
  /\ Len(realtime[Tab].history) = 3
  /\ realtime[Tab].history[1].type = "game_created"
  /\ realtime[Tab].history[2].type = "player_joined"
  /\ realtime[Tab].history[3].type = "game_started"
  /\ Len(realtime[Tab].timers) = 3


\* C38: the history of the session's events has at most one game_ended
\* event, and no question_started event after a game_ended event.
C38_GameEndedOnce ==
  LET history == realtime[Tab].history
  IN \A i, j \in 1..Len(history) :
       (i < j /\ history[i].type = "game_ended")
         => history[j].type \notin {"game_ended", "question_started"}


(***************************************************************************)
(* One useGameState hook (no playerId) that watches the session while the  *)
(* GameManager of another tab creates it, adds a player, starts it and     *)
(* advances it.  The hook's refreshes are the ones its own callbacks       *)
(* schedule: the change feed and the realtimeManager subscription call     *)
(* setTimeout(() => refreshGameData(), ms) several times per notification, *)
(* every timer starts a refreshGameData call of its own, and the calls     *)
(* that are past their getGameByPin set the state in the order in which    *)
(* their responses arrive.  The pages call connect only while isConnected  *)
(* is false.                                                               *)
(***************************************************************************)
DriverTab == "tab2"

\* The callback of the realtimeManager subscription (two timers) or of the
\* change feed (three timers) runs.
feedCallback(p, n) ==
  /\ view[p].subscribed
  /\ view[p].timers + n <= MaxTimers
  /\ view' = [view EXCEPT ![p].timers = @ + n]
  /\ UNCHANGED << rows, games, local, ret, nextId, calls, failures, scoring, realtime, board >>

\* A timer runs: refreshGameData() up to its getGameByPin; 'Game not found'
\* sets the error only.
timerRefresh(p) ==
  /\ view[p].timers > 0
  /\ Len(view[p].inflight) < MaxInFlight
  /\ IF Found
       THEN /\ games' = [games EXCEPT ![p] = rows]
            /\ view' = [view EXCEPT ![p] =
                 [@ EXCEPT !.timers = @ - 1, !.inflight = Append(@, rows[1])]]
       ELSE /\ view' = [view EXCEPT ![p].timers = @ - 1]
            /\ UNCHANGED games
  /\ UNCHANGED << rows, local, ret, nextId, calls, failures, scoring, realtime, board >>

\* The response of the i-th refreshGameData call in flight arrives: setState
responseArrives(p, i) ==
  /\ i \in 1..Len(view[p].inflight)
  /\ LET v == view[p]
         rest == SubSeq(v.inflight, 1, i - 1) \o SubSeq(v.inflight, i + 1, Len(v.inflight))
         set == Refreshed([v EXCEPT !.fetched = << v.inflight[i] >>])
     IN view' = [view EXCEPT ![p] =
          [set EXCEPT !.pending = v.pending, !.fetched = v.fetched, !.inflight = rest]]
  /\ UNCHANGED << rows, games, local, ret, nextId, calls, failures, scoring, realtime, board >>

NextHook ==
  \/ \E quizId \in FacadeQuizIds : FacadeCanCall /\ createGameSession(DriverTab, quizId)
  \/ \E playerName \in FacadeNames : FacadeCanCall /\ addPlayerToGame(DriverTab, playerName)
  \/ addPlayerCommit(DriverTab)
  \/ FacadeCanCall /\ startGame(DriverTab)
  \/ startGameCommit(DriverTab)
  \/ FacadeCanCall /\ nextQuestion(DriverTab)
  \/ nextQuestionCommit(DriverTab)
  \/ ~view[Tab].isConnected /\ connect(Tab)
  \/ connected(Tab)
  \/ disconnect(Tab)
  \/ \E n \in {2, 3} : feedCallback(Tab, n)
  \/ timerRefresh(Tab)
  \/ \E i \in 1..MaxInFlight : responseArrives(Tab, i)

SpecHook == Init /\ [][NextHook]_vars


\* C39: a hook whose state is cleared (game null, isConnected false), that
\* holds no subscription and has no connect call in flight, as disconnect()
\* leaves it, stays cleared until connect is called: no callback, timer or
\* refreshGameData call of before writes a game or sets isConnected; and
\* whenever isConnected is true the hook holds its event subscription.
C39_ClearedUntilConnect ==
  /\ [](view[Tab].isConnected => view[Tab].subscribed)
  /\ [][ ( /\ view[Tab].game = << >> /\ ~view[Tab].isConnected
           /\ ~view[Tab].subscribed
           /\ view[Tab].pending # "connect" /\ view'[Tab].pending # "connect" )
         => /\ view'[Tab].game = << >>
            /\ ~view'[Tab].isConnected ]_vars

\* The status of a session does not come before the status of another.
StatusRank(status) ==
  CASE status = "waiting" -> 0
    [] status = "playing" -> 1
    [] OTHER -> 2

\* C40: from one cached session to the next, the status of the hook's cached
\* game does not go back (playing to waiting, finished to playing or
\* waiting) and its currentQuestionIndex does not decrease.
C40_ViewNeverGoesBack ==
  [][ (view[Tab].game # << >> /\ view'[Tab].game # << >>)
      => /\ StatusRank(view'[Tab].game[1].status) >= StatusRank(view[Tab].game[1].status)
         /\ view'[Tab].game[1].currentQuestionIndex
              >= view[Tab].game[1].currentQuestionIndex ]_vars

=============================================================================
